---- MODULE Spec2Model ----
(***************************************************************************)
(* WAF cookie cache (waf_cookie_manager.py) and the persistent browser it  *)
(* borrows (browser_manager.py), as asyncio tasks on one event loop.       *)
(*                                                                         *)
(* A step of the model is what one task runs between two suspension points *)
(* (an await that really suspends).  Acquiring a free asyncio lock does    *)
(* not suspend, so "call, take the lock, set the flag, start the browser   *)
(* fetch" is one step, as it is on the event loop.                         *)
(*                                                                         *)
(* Time is counted in ticks of 30 s.  The hard-coded durations of the code *)
(* keep their value: wait_for(..., timeout=120) is 4 ticks and the         *)
(* max(60, ...) of the background loop is 2 ticks.  The three durations    *)
(* the code reads from the environment are given values that let a whole   *)
(* VALID -> EXPIRING -> EXPIRED cycle fit in the clock horizon:            *)
(* WAF_COOKIE_TTL=150, WAF_COOKIE_REFRESH_BEFORE=60,                        *)
(* WAF_COOKIE_RETRY_INTERVAL=30 (defaults 2700, 600, 30).                  *)
(* Time advances only when no task is runnable (all are suspended on the   *)
(* browser, a sleep or a lock that is held).                               *)
(*                                                                         *)
(* The monitoring counters cache_hits, cache_misses, successful_refreshes, *)
(* failed_refreshes, last_* of _stats and error_count of the browser are   *)
(* write-only in the code and are left out; total_refreshes is kept.       *)
(*                                                                         *)
(* The account pool, the site router and the proxy() handler of            *)
(* waf_proxy.py follow.  A step of a handler runs from one upstream        *)
(* answer to the next upstream request (or to the end of proxy()); the     *)
(* health map and the router's index and counter are module globals that   *)
(* every handler, the primary-site check and the admin endpoints share.    *)
(* ACCOUNT_DISABLE_DURATION=300 is 10 ticks, and the clock of that part    *)
(* moves by half a disable window at a time.                               *)
(***************************************************************************)
EXTENDS Integers, Sequences, FiniteSets, TLC

\* ---------------------------------------------------------------- bounds
MaxNow == 7
MaxFetch == 4
MaxRestart == 2
MaxCalls == 5
MaxRequests == 4
MaxLoads == 1
MaxClock == 10
MaxBurst == 2
MaxChunks == 1

\* ------------------------------------------------------------- constants
WAF_COOKIE_TTL == 5
WAF_COOKIE_REFRESH_BEFORE == 2
WAF_COOKIE_RETRY_INTERVAL == 1
MAX_RETRIES == 2
WAIT_TIMEOUT == 4
MIN_SLEEP == 2
MAX_SITE_FAILS == 3
ACCOUNT_MAX_FAILS == 3
ACCOUNT_DISABLE_DURATION == 10
MAX_ACCOUNT_RETRIES == 3
CAPACITY_WAIT == 2
NumSites == 4

\* ----------------------------------------------------------------- tasks
Getters == {"g1", "g2"}
Forcers == {"f1", "f2"}
Callers == Getters \cup Forcers
Tasks == Callers \cup {"pre", "bg"}
None == "none"

NoResult == -1
Err == -2
EmptyJar == 0

FetchOutcomes == {"ok", "empty", "browser_err", "other_err"}

\* Callers of BrowserManager.start/stop/restart: the lifespan hook, the
\* cookie refresh (ensure_running, restart on a browser error), the
\* background loop and the /restart-browser endpoint.
BmTasks == {"lifespan", "refresh", "bg", "admin"}
NoBrowser == 0

\* Accounts of the accounts file, proxy() calls in flight and the tasks that
\* run scheduled_primary_site_check() (POST /switch-to-primary is the same
\* code).
AllAccounts == {"A", "B", "C", "D"}
\* The accounts files of most specifications: none, one or two accounts.
Files == {{}, {"A"}, {"A", "B"}}
Handlers == {"h1", "h2"}
Probers == {"sched"}

\* An account without an entry in account_health.
NoHealth == [present |-> FALSE, fail_count |-> 0, last_fail |-> 0, disabled_until |-> 0]

\* No proxy() call is running in the handler.
IdleReq ==
    [pc |-> "idle", is_stream |-> FALSE, account_name |-> None,
     tried_account_names |-> {}, start_index |-> 0, tried_sites |-> 0,
     attempt |-> 0, won |-> -1, rotations |-> 0, open |-> FALSE, chunks |-> 0,
     chunk_count |-> 0, cookies |-> FALSE, proxy_config |-> FALSE]

\* The record of a step: the handler that took it, the result of its
\* get_next_account call and that call's argument, whether it sent an
\* upstream request, the account whose failure it recorded and the value of
\* account_error at that call, whether it called record_site_failure, the
\* account whose success it recorded and whether that account was disabled,
\* and the site its completed request had succeeded on; the upstream answer
\* it handled, the seconds it slept before retrying, the threshold
\* rotations its request has caused so far, how proxy() ended if it ended
\* without an upstream response, whether it closed the upstream client of a
\* stream, whether that stream had raised and how many chunks it still owed;
\* for the primary-site check, what it did or got; the current_site_index
\* its sticky-winner write replaced, if it made that write.
NoPick == "nopick"
NoEvent ==
    [h |-> None, picked |-> NoPick, excluded |-> {}, sent |-> FALSE,
     failed |-> None, account_error |-> FALSE, site_failed |-> FALSE,
     succeeded |-> None, was_disabled |-> FALSE, completed |-> -1,
     outcome |-> None, slept |-> 0, rotations |-> 0, status |-> None,
     closed |-> FALSE, raised |-> FALSE, undelivered |-> 0, probe |-> None,
     moved_from |-> -1]

VARIABLES
    now,             \* time.time(), in ticks
    cookies,         \* _cookies: 0 is the empty map, k > 0 the map fetch k returned
    expire_time,     \* _expire_time
    is_refreshing,   \* _is_refreshing
    total_refreshes, \* _stats["total_refreshes"]: browser fetches started so far
    lock_holder,     \* owner of the lock of _refresh_condition
    lock_queue,      \* tasks suspended in its acquire(), FIFO
    pc,              \* where each task is suspended
    retry_count,     \* retry_count argument of the running _do_refresh_internal
    result,          \* what get_cookies()/force_refresh() returned to each caller
    sleep_until,     \* end of the background loop's asyncio.sleep
    wait_since,      \* when a task started to wait inside _refresh_with_lock
    br_running,      \* BrowserManager.is_running
    br_lock,         \* owner of BrowserManager._lock
    has_start_time,  \* BrowserManager._start_time is not None
    restart_count,   \* BrowserManager._restart_count
    seen,            \* history: the state each get_cookies() caller read
    behind,          \* history: the refresh in flight when each caller called
    ran,             \* history: the refresh each caller ran itself, 0 if none
    op_restarts0,    \* history: restart_count when the latest refresh started
    cur_op,          \* history: id of the refresh operation in flight, 0 if none
    op_task,         \* history: the task that ran the latest refresh operation
    op_log           \* history: browser events of the latest refresh operation

\* BrowserManager in detail (the section "BrowserManager" below)
VARIABLES
    bm_pc,           \* where each caller of start/stop/restart is suspended
    bm_op,           \* the method each of them is inside
    bm_queue,        \* tasks suspended in BrowserManager._lock.acquire(), FIFO
    bm_browser,      \* _browser: 0 is None, k > 0 the process launch k created
    bm_procs,        \* the browser processes launched and neither closed nor dead
    bm_calls,        \* start/stop/restart calls made so far
    bm_launched,     \* browser processes launched so far
    bm_result        \* what each caller's latest call returned

\* Request handlers, account pool and site router (the section "proxy" below)
VARIABLES
    accounts,           \* names of the loaded accounts
    account_health,     \* account_health: name -> record, NoHealth if absent
    current_site_index, \* current_site_index
    site_fail_count,    \* site_fail_count
    req,                \* the local variables of each running proxy() call
    probe,              \* where each primary-site check is suspended
    requests,           \* proxy() calls started so far
    loads,              \* load_accounts() calls made so far
    ev                  \* history: what the latest step did

entry == <<cookies, expire_time, is_refreshing, total_refreshes>>
lock == <<lock_holder, lock_queue>>
browser == <<br_running, br_lock, has_start_time, restart_count>>
hist == <<seen, behind, ran, op_restarts0, cur_op, op_task, op_log>>
bm_vars == <<bm_pc, bm_op, bm_queue, bm_browser, bm_procs, bm_calls, bm_launched,
             bm_result>>
pool_vars == <<accounts, account_health, loads>>
site_vars == <<current_site_index, site_fail_count>>
proxy_vars == <<pool_vars, site_vars, req, probe, requests, ev>>
cache_vars == <<entry, lock, pc, retry_count, result, sleep_until, wait_since, hist>>
vars == <<now, cookies, expire_time, is_refreshing, total_refreshes, lock_holder,
          lock_queue, pc, retry_count, result, sleep_until, wait_since,
          br_running, br_lock, has_start_time, restart_count, seen, behind, ran,
          op_restarts0, cur_op, op_task, op_log, bm_vars, proxy_vars>>

\* What the cookie cache and its tasks never touch.
beside_cache == <<bm_vars, proxy_vars>>

Max(a, b) == IF a >= b THEN a ELSE b

\* ------------------------------------------------------ WAFCookieManager
\* state property, as a function of the fields it reads.
StateOf_SignError(ck, exp, refreshing, t) ==
    IF refreshing THEN "REFRESHING"
    ELSE IF ck = EmptyJar THEN "EMPTY"
    ELSE IF t >= exp THEN "EXPIRED"
    ELSE IF t >= exp + WAF_COOKIE_REFRESH_BEFORE THEN "EXPIRING"
    ELSE "VALID"

StateOf(ck, exp, refreshing, t) ==
    IF refreshing THEN "REFRESHING"
    ELSE IF ck = EmptyJar THEN "EMPTY"
    ELSE IF t >= exp THEN "EXPIRED"
    ELSE IF t >= exp - WAF_COOKIE_REFRESH_BEFORE THEN "EXPIRING"
    ELSE "VALID"

State == StateOf(cookies, expire_time, is_refreshing, now)

\* is_valid property.
IsValidOf(ck, exp, refreshing, t) ==
    StateOf(ck, exp, refreshing, t) \in {"VALID", "EXPIRING"}

\* ttl property.
TtlOf(exp, t) == Max(0, exp - t)

Init ==
    /\ now = 0
    /\ cookies = EmptyJar
    /\ expire_time = 0
    /\ is_refreshing = FALSE
    /\ total_refreshes = 0
    /\ lock_holder = None
    /\ lock_queue = <<>>
    /\ pc = [t \in Tasks |-> "idle"]
    /\ retry_count = [t \in Tasks |-> 0]
    /\ result = [t \in Callers |-> NoResult]
    /\ sleep_until = 0
    /\ wait_since = [t \in Tasks |-> 0]
    /\ br_running = FALSE
    /\ br_lock = None
    /\ has_start_time = FALSE
    /\ restart_count = 0
    /\ seen = [t \in Getters |-> "none"]
    /\ behind = [t \in Callers |-> 0]
    /\ ran = [t \in Callers |-> 0]
    /\ op_restarts0 = 0
    /\ cur_op = 0
    /\ op_task = None
    /\ op_log = <<>>
    /\ bm_pc = [t \in BmTasks |-> "idle"]
    /\ bm_op = [t \in BmTasks |-> "none"]
    /\ bm_queue = <<>>
    /\ bm_browser = NoBrowser
    /\ bm_procs = {}
    /\ bm_calls = 0
    /\ bm_launched = 0
    /\ bm_result = [t \in BmTasks |-> "none"]
    /\ accounts = {}
    /\ account_health = [a \in AllAccounts |-> NoHealth]
    /\ current_site_index = 0
    /\ site_fail_count = 0
    /\ req = [h \in Handlers |-> IdleReq]
    /\ probe = [p \in Probers |-> "idle"]
    /\ requests = 0
    /\ loads = 0
    /\ ev = NoEvent

\* ------------------------------------------------------------- helpers
RECURSIVE SetToSeq(_)
SetToSeq(S) ==
    IF S = {} THEN <<>>
    ELSE LET x == CHOOSE y \in S : TRUE IN <<x>> \o SetToSeq(S \ {x})

\* Tasks suspended in condition.wait().
CondWaiters == {t \in Tasks : pc[t] = "cond_wait"}

\* condition.notify_all(): every waiter leaves wait() and queues for the lock.
PcNotified(p) == [t \in Tasks |-> IF p[t] = "cond_wait" THEN "cond_reacq" ELSE p[t]]

\* The degraded result of a failed refresh: stale cookies if any, else raise.
StaleOrErr_AlwaysRaise == Err

StaleOrErr == IF cookies # EmptyJar THEN cookies ELSE Err

\* The sleep the background loop computes after its check.
BgSleep(v, ck, e, r) ==
    IF v = Err THEN WAF_COOKIE_RETRY_INTERVAL
    ELSE IF IsValidOf(ck, e, r, now)
         THEN Max(MIN_SLEEP, TtlOf(e, now) - WAF_COOKIE_REFRESH_BEFORE)
         ELSE WAF_COOKIE_RETRY_INTERVAL

\* _refresh_with_lock / get_cookies / force_refresh returns v (Err: raises) to
\* task t; ck, e, r are the entry's fields at that moment, p the other tasks.
Return(t, v, ck, e, r, p) ==
    /\ pc' = [p EXCEPT ![t] = IF t \in Callers THEN "done"
                              ELSE IF t = "pre" THEN "idle" ELSE "sleeping"]
    /\ result' = IF t \in Callers THEN [result EXCEPT ![t] = v] ELSE result
    /\ sleep_until' = IF t = "bg" THEN now + BgSleep(v, ck, e, r) ELSE sleep_until

\* _trigger_pre_refresh
TriggerPreRefresh(p) ==
    IF is_refreshing THEN p
    ELSE IF p["pre"] # "idle" THEN p
    ELSE [p EXCEPT !["pre"] = "created"]

\* The double check of _refresh_with_lock.
AlreadyRefreshed_Never(e) == FALSE

AlreadyRefreshed(e) == IsValidOf(cookies, e, is_refreshing, now)

\* The cache update of a successful fetch: the new map and its expiry.
Installed_KeepsExpiry(jar) == <<jar, expire_time>>

Installed(jar) == <<jar, now + WAF_COOKIE_TTL>>

\* The retry condition of _do_refresh_internal.
CanRetry_AnyError(out, rc) == out \in {"browser_err", "other_err", "empty"} /\ rc < MAX_RETRIES

CanRetry(out, rc) == out = "browser_err" /\ rc < MAX_RETRIES

\* _do_refresh_internal(rc) up to its first suspension, the browser fetch.
StartFetch(t, rc, holder, q, e, p, lg) ==
    /\ total_refreshes < MaxFetch
    /\ is_refreshing' = TRUE
    /\ total_refreshes' = total_refreshes + 1
    /\ cookies' = cookies
    /\ expire_time' = e
    /\ lock_holder' = holder
    /\ lock_queue' = q
    /\ pc' = [p EXCEPT ![t] = "fetching"]
    /\ retry_count' = [retry_count EXCEPT ![t] = rc]
    /\ wait_since' = [wait_since EXCEPT ![t] = 0]
    /\ cur_op' = IF rc = 0 THEN total_refreshes + 1 ELSE cur_op
    /\ ran' = IF rc = 0 /\ t \in Callers
              THEN [ran EXCEPT ![t] = total_refreshes + 1] ELSE ran
    /\ op_restarts0' = IF rc = 0 THEN restart_count ELSE op_restarts0
    /\ op_task' = t
    /\ op_log' = Append(lg, "F")
    /\ UNCHANGED <<result, sleep_until>>

\* The finally block of _do_refresh_internal and the exit of "async with
\* condition", with the entry left as (ck, e) and v handed to the caller.
EndRefresh_FlagOnSuccessOnly(t, v, ck, e, lg) ==
    /\ cookies' = ck
    /\ expire_time' = e
    /\ is_refreshing' = (lg[Len(lg)] # "ok")
    /\ lock_holder' = None
    /\ lock_queue' = lock_queue \o SetToSeq(CondWaiters)
    /\ Return(t, v, ck, e, FALSE, PcNotified(pc))
    /\ retry_count' = [retry_count EXCEPT ![t] = 0]
    /\ cur_op' = 0
    /\ op_log' = lg
    /\ UNCHANGED <<total_refreshes, wait_since, op_task, ran, op_restarts0>>

EndRefresh(t, v, ck, e, lg) ==
    /\ cookies' = ck
    /\ expire_time' = e
    /\ is_refreshing' = FALSE
    /\ lock_holder' = None
    /\ lock_queue' = lock_queue \o SetToSeq(CondWaiters)
    /\ Return(t, v, ck, e, FALSE, PcNotified(pc))
    /\ retry_count' = [retry_count EXCEPT ![t] = 0]
    /\ cur_op' = 0
    /\ op_log' = lg
    /\ UNCHANGED <<total_refreshes, wait_since, op_task, ran, op_restarts0>>

\* _refresh_with_lock once the lock is held by t; q is the queue behind t.
AfterAcquire(t, q, e, p) ==
    IF is_refreshing
    THEN \* await wait_for(condition.wait(), 120): gives the lock up
         /\ pc' = [p EXCEPT ![t] = "cond_wait"]
         /\ wait_since' = [wait_since EXCEPT ![t] = now]
         /\ lock_holder' = None
         /\ lock_queue' = q
         /\ expire_time' = e
         /\ UNCHANGED <<cookies, is_refreshing, total_refreshes, retry_count,
                        result, sleep_until, cur_op, op_task, op_log, ran, op_restarts0>>
    ELSE IF AlreadyRefreshed(e)
    THEN /\ lock_holder' = None
         /\ lock_queue' = q
         /\ expire_time' = e
         /\ Return(t, cookies, cookies, e, FALSE, p)
         /\ wait_since' = [wait_since EXCEPT ![t] = 0]
         /\ UNCHANGED <<cookies, is_refreshing, total_refreshes, retry_count,
                        cur_op, op_task, op_log, ran, op_restarts0>>
    ELSE StartFetch(t, 0, t, q, e, p, <<>>)

\* _refresh_with_lock from its call: "async with condition" takes the lock at
\* once when it is free and nobody queues for it, and suspends otherwise.
Enter(t, e, p) ==
    IF lock_holder = None /\ lock_queue = <<>>
    THEN AfterAcquire(t, lock_queue, e, p)
    ELSE /\ pc' = [p EXCEPT ![t] = "lock_wait"]
         /\ lock_queue' = Append(lock_queue, t)
         /\ wait_since' = [wait_since EXCEPT ![t] = now]
         /\ expire_time' = e
         /\ UNCHANGED <<cookies, is_refreshing, total_refreshes, lock_holder,
                        retry_count, result, sleep_until, cur_op, op_task, op_log, ran, op_restarts0>>

\* --------------------------------------------------------------- actions
\* get_cookies()
GetCookies(t) ==
    /\ t \in Getters
    /\ pc[t] = "idle"
    /\ seen' = [seen EXCEPT ![t] = State]
    /\ behind' = [behind EXCEPT ![t] = cur_op]
    /\ IF State = "VALID"
       THEN /\ Return(t, cookies, cookies, expire_time, is_refreshing, pc)
            /\ UNCHANGED <<entry, lock, retry_count, wait_since, cur_op, op_task, op_log, ran, op_restarts0>>
       ELSE IF State = "EXPIRING"
       THEN /\ Return(t, cookies, cookies, expire_time, is_refreshing,
                      TriggerPreRefresh(pc))
            /\ UNCHANGED <<entry, lock, retry_count, wait_since, cur_op, op_task, op_log, ran, op_restarts0>>
       ELSE Enter(t, expire_time, pc)
    /\ UNCHANGED <<now, browser>>
    /\ UNCHANGED beside_cache

\* force_refresh()
ForceRefresh(t) ==
    /\ t \in Forcers
    /\ pc[t] = "idle"
    /\ behind' = [behind EXCEPT ![t] = cur_op]
    /\ Enter(t, 0, pc)
    /\ UNCHANGED <<now, browser, seen>>
    /\ UNCHANGED beside_cache

\* _pre_refresh(), the task _trigger_pre_refresh created.
PreRefresh_Unlocked ==
    /\ pc["pre"] = "created"
    /\ StartFetch("pre", 0, lock_holder, lock_queue, expire_time, pc, <<>>)
    /\ UNCHANGED <<now, browser, seen, behind>>
    /\ UNCHANGED beside_cache

PreRefresh ==
    /\ pc["pre"] = "created"
    /\ Enter("pre", expire_time, pc)
    /\ UNCHANGED <<now, browser, seen, behind>>
    /\ UNCHANGED beside_cache

\* A task suspended on the condition's lock gets it: a queued caller goes on
\* in _refresh_with_lock, a waiter whose wait_for timed out runs the handler
\* of asyncio.TimeoutError.
Resume(t) ==
    /\ lock_holder = None
    /\ lock_queue # <<>>
    /\ Head(lock_queue) = t
    /\ IF pc[t] = "cond_timeout"
       THEN /\ lock_queue' = Tail(lock_queue)
            /\ Return(t, StaleOrErr, cookies, expire_time, is_refreshing, pc)
            /\ wait_since' = [wait_since EXCEPT ![t] = 0]
            /\ UNCHANGED <<entry, lock_holder, retry_count, cur_op, op_task, op_log, ran, op_restarts0>>
       ELSE AfterAcquire(t, Tail(lock_queue), expire_time, pc)
    /\ UNCHANGED <<now, browser, seen, behind>>
    /\ UNCHANGED beside_cache

\* browser_manager.get_page_cookies() returns to _do_refresh_internal.
\* alive: whether the browser is connected afterwards (ensure_running may
\* have started it, which needs BrowserManager._lock).
FetchReturn_EmptyInstalls(t, out, alive) ==
    /\ pc[t] = "fetching"
    /\ out \in {"ok", "empty"} => alive
    /\ (alive /\ ~br_running) => br_lock = None
    /\ LET lg == Append(op_log, out)
           jar == IF out = "ok" THEN total_refreshes ELSE EmptyJar
       IN IF out \in {"ok", "empty"}
          THEN /\ EndRefresh(t, jar, Installed(jar)[1], Installed(jar)[2], lg)
               /\ br_running' = alive
               /\ br_lock' = br_lock
          ELSE IF CanRetry(out, retry_count[t])
          THEN \* await browser_manager.restart(), the flag stays set
               /\ restart_count < MaxRestart
               /\ pc' = [pc EXCEPT ![t] = IF br_lock = None THEN "restarting"
                                          ELSE "restart_wait"]
               /\ br_lock' = IF br_lock = None THEN t ELSE br_lock
               /\ br_running' = IF br_lock = None THEN FALSE ELSE alive
               /\ op_log' = lg
               /\ UNCHANGED <<entry, lock, retry_count, result, sleep_until,
                              wait_since, cur_op, op_task, ran, op_restarts0>>
          ELSE /\ EndRefresh(t, StaleOrErr, cookies, expire_time, lg)
               /\ br_running' = alive
               /\ br_lock' = br_lock
    /\ has_start_time' = (has_start_time \/ alive)
    /\ UNCHANGED <<now, restart_count, seen, behind>>
    /\ UNCHANGED beside_cache

FetchReturn(t, out, alive) ==
    /\ pc[t] = "fetching"
    /\ out \in {"ok", "empty"} => alive
    /\ (alive /\ ~br_running) => br_lock = None
    /\ LET lg == Append(op_log, out)
           jar == total_refreshes
       IN IF out = "ok"
          THEN /\ EndRefresh(t, jar, Installed(jar)[1], Installed(jar)[2], lg)
               /\ br_running' = alive
               /\ br_lock' = br_lock
          ELSE IF CanRetry(out, retry_count[t])
          THEN \* await browser_manager.restart(), the flag stays set
               /\ restart_count < MaxRestart
               /\ pc' = [pc EXCEPT ![t] = IF br_lock = None THEN "restarting"
                                          ELSE "restart_wait"]
               /\ br_lock' = IF br_lock = None THEN t ELSE br_lock
               /\ br_running' = IF br_lock = None THEN FALSE ELSE alive
               /\ op_log' = lg
               /\ UNCHANGED <<entry, lock, retry_count, result, sleep_until,
                              wait_since, cur_op, op_task, ran, op_restarts0>>
          ELSE /\ EndRefresh(t, StaleOrErr, cookies, expire_time, lg)
               /\ br_running' = alive
               /\ br_lock' = br_lock
    /\ has_start_time' = (has_start_time \/ alive)
    /\ UNCHANGED <<now, restart_count, seen, behind>>
    /\ UNCHANGED beside_cache

\* restart() gets BrowserManager._lock and starts closing the old browser.
RestartAcquire(t) ==
    /\ pc[t] \in {"restart_wait", "bg_restart_wait"}
    /\ br_lock = None
    /\ br_lock' = t
    /\ br_running' = FALSE
    /\ pc' = [pc EXCEPT ![t] = IF pc[t] = "restart_wait" THEN "restarting"
                               ELSE "bg_restarting"]
    /\ UNCHANGED <<now, entry, lock, retry_count, result, sleep_until, wait_since,
                   has_start_time, restart_count, hist>>
    /\ UNCHANGED beside_cache

\* restart() called by _do_refresh_internal finishes: launched (ok) or raised.
RestartEnd(t, ok) ==
    /\ pc[t] = "restarting"
    /\ restart_count' = restart_count + 1
    /\ br_lock' = None
    /\ br_running' = ok
    /\ has_start_time' = (has_start_time \/ ok)
    /\ IF ok
       THEN StartFetch(t, retry_count[t] + 1, lock_holder, lock_queue, expire_time,
                       pc, Append(op_log, "Rok"))
       ELSE EndRefresh(t, StaleOrErr, cookies, expire_time, Append(op_log, "Rfail"))
    /\ UNCHANGED <<now, seen, behind>>
    /\ UNCHANGED beside_cache

\* lifespan: asyncio.create_task(start_background_refresh())
BgStart ==
    /\ pc["bg"] = "idle"
    /\ pc' = [pc EXCEPT !["bg"] = "sleeping"]
    /\ sleep_until' = now
    /\ UNCHANGED <<now, entry, lock, retry_count, result, wait_since, browser, hist>>
    /\ UNCHANGED beside_cache

\* The loop body of start_background_refresh after the scheduled restart.
BgCheck ==
    IF State \in {"EMPTY", "EXPIRING", "EXPIRED"}
    THEN Enter("bg", expire_time, pc)
    ELSE /\ Return("bg", cookies, cookies, expire_time, is_refreshing, pc)
         /\ UNCHANGED <<entry, lock, retry_count, wait_since, cur_op, op_task, op_log, ran, op_restarts0>>

\* One wake-up of start_background_refresh.  due is should_restart()'s
\* comparison of the uptime with BROWSER_RESTART_HOURS, which is counted in
\* hours and lies beyond the clock of the model.
BgWake(due) ==
    /\ pc["bg"] = "sleeping"
    /\ now >= sleep_until
    /\ IF has_start_time /\ due
       THEN /\ restart_count < MaxRestart
            /\ pc' = [pc EXCEPT !["bg"] = IF br_lock = None THEN "bg_restarting"
                                          ELSE "bg_restart_wait"]
            /\ br_lock' = IF br_lock = None THEN "bg" ELSE br_lock
            /\ br_running' = IF br_lock = None THEN FALSE ELSE br_running
            /\ UNCHANGED <<entry, lock, retry_count, result, sleep_until, wait_since,
                           has_start_time, restart_count, cur_op, op_task, op_log, ran, op_restarts0>>
       ELSE /\ BgCheck
            /\ UNCHANGED browser
    /\ UNCHANGED <<now, seen, behind>>
    /\ UNCHANGED beside_cache

\* The scheduled restart() of the background loop finishes.
BgRestartEnd(ok) ==
    /\ pc["bg"] = "bg_restarting"
    /\ restart_count' = restart_count + 1
    /\ br_lock' = None
    /\ br_running' = ok
    /\ has_start_time' = (has_start_time \/ ok)
    /\ IF ok
       THEN BgCheck
       ELSE /\ Return("bg", Err, cookies, expire_time, is_refreshing, pc)
            /\ UNCHANGED <<entry, lock, retry_count, wait_since, cur_op, op_task, op_log, ran, op_restarts0>>
    /\ UNCHANGED <<now, seen, behind>>
    /\ UNCHANGED beside_cache

\* A task is runnable: the event loop runs it before any time passes.
Urgent ==
    \/ lock_holder = None /\ lock_queue # <<>>
    \/ pc["pre"] = "created"
    \/ pc["bg"] = "sleeping" /\ now >= sleep_until
    \/ \E t \in Tasks : pc[t] \in {"restart_wait", "bg_restart_wait"} /\ br_lock = None

\* Waiters of condition.wait() whose wait_for(…, timeout=120) ends at time n.
TimedOut(n) == {t \in Tasks : pc[t] = "cond_wait" /\ n - wait_since[t] >= WAIT_TIMEOUT}

\* 30 s pass.
Tick ==
    /\ now < MaxNow
    /\ ~Urgent
    /\ now' = now + 1
    /\ pc' = [t \in Tasks |-> IF t \in TimedOut(now + 1) THEN "cond_timeout" ELSE pc[t]]
    /\ lock_queue' = lock_queue \o SetToSeq(TimedOut(now + 1))
    /\ UNCHANGED <<entry, lock_holder, retry_count, result, sleep_until, wait_since,
                   browser, hist>>
    /\ UNCHANGED beside_cache

\* Callers of one kind are interchangeable: they are numbered in the order
\* of their calls.
InOrder(t) ==
    /\ t = "g2" => pc["g1"] # "idle"
    /\ t = "f2" => pc["f1"] # "idle"

\* What every population of tasks runs.
Common ==
    \/ PreRefresh
    \/ \E t \in Tasks : Resume(t)
    \/ \E t \in Tasks, out \in FetchOutcomes, alive \in BOOLEAN : FetchReturn(t, out, alive)
    \/ \E t \in Tasks, ok \in BOOLEAN : RestartEnd(t, ok)
    \/ Tick

\* Request handlers and admin calls: two get_cookies() and two force_refresh()
\* callers, and the pre-refresh task they create.
Next ==
    \/ \E t \in Getters : InOrder(t) /\ GetCookies(t)
    \/ \E t \in Forcers : InOrder(t) /\ ForceRefresh(t)
    \/ Common

Spec == Init /\ [][Next]_vars

\* One caller of each kind together with the background refresh loop.
NextBg ==
    \/ GetCookies("g1")
    \/ ForceRefresh("f1")
    \/ Common
    \/ \E t \in Tasks : RestartAcquire(t)
    \/ BgStart
    \/ \E due \in BOOLEAN : BgWake(due)
    \/ \E ok \in BOOLEAN : BgRestartEnd(ok)

SpecBg == Init /\ [][NextBg]_vars

\* The background loop started first, a get_cookies() caller that arrives
\* after the first successful refresh, and a browser whose every fetch
\* succeeds and that is never due for its periodic restart.
NextHappy ==
    \/ pc["bg"] # "idle" /\ cookies # EmptyJar /\ GetCookies("g1")
    \/ PreRefresh
    \/ \E t \in Tasks : Resume(t)
    \/ \E t \in Tasks : FetchReturn(t, "ok", TRUE)
    \/ BgStart
    \/ BgWake(FALSE)
    \/ Tick

SpecHappy == Init /\ [][NextHappy]_vars

TypeOK ==
    /\ now \in 0..MaxNow
    /\ cookies \in 0..MaxFetch
    /\ expire_time \in 0..(MaxNow + WAF_COOKIE_TTL)
    /\ is_refreshing \in BOOLEAN
    /\ total_refreshes \in 0..MaxFetch
    /\ lock_holder \in Tasks \cup {None}
    /\ \A t \in Tasks : pc[t] \in {"idle", "created", "lock_wait", "cond_wait", "cond_reacq",
                                   "cond_timeout", "fetching", "restart_wait", "restarting",
                                   "bg_restart_wait", "bg_restarting", "sleeping", "done"}
    /\ \A t \in Tasks : retry_count[t] \in 0..MAX_RETRIES
    /\ \A t \in Callers : result[t] \in {NoResult, Err} \cup 1..MaxFetch

\* ======================================================== BrowserManager
\* start(), stop(), restart() and ensure_running() with the suspension
\* points they have while BrowserManager._lock is held.  _playwright is set
\* exactly when _browser is whenever the lock is free, and _started is only
\* reported by stats: both are left out.  A browser process that dies
\* (is_connected() turns false) stays referenced by _browser until the next
\* _cleanup_internal.

\* is_running property.
Running(b, ps) == b # NoBrowser /\ b \in ps

BmFrame == UNCHANGED <<now, cache_vars, proxy_vars>>

\* The lock is given up and the call returns res ("none" for a method
\* without a result) or raises ("raise") to its caller.
BmReturn(t, q, res) ==
    /\ bm_pc' = [bm_pc EXCEPT ![t] = "idle"]
    /\ bm_op' = [bm_op EXCEPT ![t] = "none"]
    /\ br_lock' = None
    /\ bm_queue' = q
    /\ bm_result' = [bm_result EXCEPT ![t] = res]

\* "Starting Playwright browser...": the await of async_playwright().start()
\* and chromium.launch(), entered with nothing referenced.
BmLaunch(t, op, q) ==
    /\ bm_pc' = [bm_pc EXCEPT ![t] = "launching"]
    /\ bm_op' = [bm_op EXCEPT ![t] = op]
    /\ br_lock' = t
    /\ bm_queue' = q
    /\ bm_result' = [bm_result EXCEPT ![t] = "none"]
    /\ restart_count' = IF op = "restart" THEN restart_count + 1 ELSE restart_count

\* The code after _cleanup_internal() in stop(), start() and restart().
AfterCleanup(t, op, q) ==
    IF op = "stop"
    THEN BmReturn(t, q, "none") /\ UNCHANGED restart_count
    ELSE BmLaunch(t, op, q)

\* The body of "async with self._lock" of start(), stop() and restart(),
\* up to its first suspension.
BmLocked_NoRecheck(t, op, q) ==
    IF bm_browser # NoBrowser
    THEN /\ bm_pc' = [bm_pc EXCEPT ![t] = "closing"]
         /\ bm_op' = [bm_op EXCEPT ![t] = op]
         /\ br_lock' = t
         /\ bm_queue' = q
         /\ bm_result' = [bm_result EXCEPT ![t] = "none"]
         /\ UNCHANGED <<bm_browser, bm_procs, restart_count>>
    ELSE /\ AfterCleanup(t, op, q)
         /\ UNCHANGED <<bm_browser, bm_procs>>

BmLocked(t, op, q) ==
    IF op = "start" /\ Running(bm_browser, bm_procs)
    THEN \* "Browser already running"
         /\ BmReturn(t, q, "true")
         /\ UNCHANGED <<bm_browser, bm_procs, restart_count>>
    ELSE IF bm_browser # NoBrowser
    THEN \* _cleanup_internal: await self._browser.close()
         /\ bm_pc' = [bm_pc EXCEPT ![t] = "closing"]
         /\ bm_op' = [bm_op EXCEPT ![t] = op]
         /\ br_lock' = t
         /\ bm_queue' = q
         /\ bm_result' = [bm_result EXCEPT ![t] = "none"]
         /\ UNCHANGED <<bm_browser, bm_procs, restart_count>>
    ELSE /\ AfterCleanup(t, op, q)
         /\ UNCHANGED <<bm_browser, bm_procs>>

\* A call of start(), stop() or restart(): the lock is taken at once when it
\* is free and nobody queues for it.
BmCall(t, op) ==
    /\ bm_pc[t] = "idle"
    /\ bm_calls < MaxCalls
    /\ bm_calls' = bm_calls + 1
    /\ IF br_lock = None /\ bm_queue = <<>>
       THEN BmLocked(t, op, bm_queue)
       ELSE /\ bm_pc' = [bm_pc EXCEPT ![t] = "lock_wait"]
            /\ bm_op' = [bm_op EXCEPT ![t] = op]
            /\ bm_queue' = Append(bm_queue, t)
            /\ bm_result' = [bm_result EXCEPT ![t] = "none"]
            /\ UNCHANGED <<br_lock, bm_browser, bm_procs, restart_count>>
    /\ br_running' = Running(bm_browser', bm_procs')
    /\ UNCHANGED <<bm_launched, has_start_time>>
    /\ BmFrame

\* lifespan: browser_manager.start() at startup, stop() at shutdown.
BmLifespan(op) ==
    /\ op \in {"start", "stop"}
    /\ BmCall("lifespan", op)

\* ensure_running(), called by get_page_cookies(): start() unless is_running.
BmEnsureRunning ==
    /\ ~Running(bm_browser, bm_procs)
    /\ BmCall("refresh", "start")

\* restart(): the retry path of the cookie refresh, the periodic restart of
\* the background loop and the /restart-browser endpoint.
BmRestart(t) ==
    /\ t \in {"refresh", "bg", "admin"}
    /\ BmCall(t, "restart")

\* A task suspended on BrowserManager._lock gets it.
BmResume(t) ==
    /\ bm_pc[t] = "lock_wait"
    /\ br_lock = None
    /\ bm_queue # <<>>
    /\ Head(bm_queue) = t
    /\ BmLocked(t, bm_op[t], Tail(bm_queue))
    /\ br_running' = Running(bm_browser', bm_procs')
    /\ UNCHANGED <<bm_calls, bm_launched, has_start_time>>
    /\ BmFrame

\* _cleanup_internal's awaits return: the old process is gone and nothing
\* is referenced any more.
BmCleanupEnd_DropsReference(t) ==
    /\ bm_pc[t] = "closing"
    /\ bm_browser' = NoBrowser
    /\ bm_procs' = bm_procs
    /\ AfterCleanup(t, bm_op[t], bm_queue)
    /\ br_running' = FALSE
    /\ UNCHANGED <<bm_calls, bm_launched, has_start_time>>
    /\ BmFrame

BmCleanupEnd(t) ==
    /\ bm_pc[t] = "closing"
    /\ bm_browser' = NoBrowser
    /\ bm_procs' = bm_procs \ {bm_browser}
    /\ AfterCleanup(t, bm_op[t], bm_queue)
    /\ br_running' = FALSE
    /\ UNCHANGED <<bm_calls, bm_launched, has_start_time>>
    /\ BmFrame

\* The launch returns: a new process that _browser references (ok), or an
\* exception, after which _cleanup_internal leaves nothing referenced and
\* start() returns False, restart() raises.
BmLaunchEnd(t, ok) ==
    /\ bm_pc[t] = "launching"
    /\ bm_launched' = IF ok THEN bm_launched + 1 ELSE bm_launched
    /\ bm_browser' = IF ok THEN bm_launched + 1 ELSE NoBrowser
    /\ bm_procs' = IF ok THEN bm_procs \cup {bm_launched + 1} ELSE bm_procs
    /\ has_start_time' = (has_start_time \/ ok)
    /\ BmReturn(t, bm_queue,
                IF bm_op[t] = "start" THEN (IF ok THEN "true" ELSE "false")
                ELSE IF ok THEN "none" ELSE "raise")
    /\ br_running' = ok
    /\ UNCHANGED <<bm_calls, restart_count>>
    /\ BmFrame

\* The browser process dies or loses its connection.
BmCrash ==
    /\ bm_procs # {}
    /\ \E p \in bm_procs : bm_procs' = bm_procs \ {p}
    /\ br_running' = Running(bm_browser, bm_procs')
    /\ UNCHANGED <<bm_pc, bm_op, bm_queue, bm_browser, bm_calls, bm_launched, bm_result, br_lock,
                   has_start_time, restart_count>>
    /\ BmFrame

NextBrowser ==
    \/ \E op \in {"start", "stop"} : BmLifespan(op)
    \/ BmEnsureRunning
    \/ \E t \in BmTasks : BmRestart(t)
    \/ \E t \in BmTasks : BmResume(t)
    \/ \E t \in BmTasks : BmCleanupEnd(t)
    \/ \E t \in BmTasks, ok \in BOOLEAN : BmLaunchEnd(t, ok)
    \/ BmCrash

SpecBrowser == Init /\ [][NextBrowser]_vars

\* ================================================================= proxy
\* waf_proxy.py: the account pool, the site router and the proxy() handler,
\* as asyncio tasks on the same event loop.  A step of a handler runs from
\* the arrival of an upstream response to the next upstream request (or to
\* the end of the handler).  The awaits in between (get_waf_cookies,
\* refresh_waf_cookies, the 2 s sleep) read and write nothing of the pool or
\* the router; the cookie calls are the operations modelled above and appear
\* here only through their outcome, returned or raised.

\* ------------------------------------------------------------ account pool
\* is_account_healthy, on the map ah at time t
IsAccountHealthy(ah, a, t) ==
    IF ~ah[a].present THEN TRUE
    ELSE IF ah[a].disabled_until > 0 /\ t < ah[a].disabled_until THEN FALSE
    ELSE TRUE

\* record_account_failure
RecordAccountFailure(ah, a, t) ==
    LET n == ah[a].fail_count + 1 IN
    [ah EXCEPT ![a] =
        [present |-> TRUE, fail_count |-> n, last_fail |-> t,
         disabled_until |-> IF n >= ACCOUNT_MAX_FAILS
                            THEN t + ACCOUNT_DISABLE_DURATION
                            ELSE ah[a].disabled_until]]

\* record_account_success
RecordAccountSuccess_KeepsWindow(ah, a) ==
    IF ah[a].present
    THEN [ah EXCEPT ![a] = [present |-> TRUE, fail_count |-> 0, last_fail |-> 0,
                            disabled_until |-> ah[a].disabled_until]]
    ELSE ah

RecordAccountSuccess(ah, a) ==
    IF ah[a].present
    THEN [ah EXCEPT ![a] = [present |-> TRUE, fail_count |-> 0, last_fail |-> 0,
                            disabled_until |-> 0]]
    ELSE ah

\* get_next_account(exclude_names): the accounts random.choice may return on
\* the pool accs with health ah at time t; the empty set stands for None.
GetNextAccount_IgnoresExclude(accs, ah, excl, t) ==
    LET healthy == {a \in accs : IsAccountHealthy(ah, a, t)}
    IN IF healthy # {} THEN healthy ELSE accs \ excl

GetNextAccount(accs, ah, excl, t) ==
    LET healthy == {a \in accs : IsAccountHealthy(ah, a, t) /\ a \notin excl}
    IN IF healthy # {} THEN healthy ELSE accs \ excl

\* ------------------------------------------------------------- site router
NeedWaf(i) == i = 0

\* max_retries of proxy()
MaxRetries(i) == IF NeedWaf(i) THEN 4 ELSE 2

\* SITES[i]["use_proxy"]
UseProxy(i) == i = 0

\* record_site_failure, with switch_to_next_site: <<index, count>> afterwards
RecordSiteFailure_NoReset(idx, cnt) ==
    IF cnt + 1 >= MAX_SITE_FAILS
    THEN <<(idx + 1) % NumSites, cnt + 1>>
    ELSE <<idx, cnt + 1>>

RecordSiteFailure(idx, cnt) ==
    IF cnt + 1 >= MAX_SITE_FAILS
    THEN <<(idx + 1) % NumSites, 0>>
    ELSE <<idx, cnt + 1>>

\* ---------------------------------------------------------------- proxy()
\* What the upstream answered to one attempt, by the tests proxy() makes on
\* it.  "ok" is a response that is not text/html with a status below 500
\* other than 401 and 403; "ok_badjson" is such a response whose
\* Content-Type names json and whose body is not JSON.  "html" is text/html
\* with status 200; "html_4xx", "html_auth" and "html_5xx" are text/html
\* with another status below 500, with 401 or 403, and with a status from
\* 500 on (and a body).  "auth" is 401 or 403; the three "5xx" are a status
\* from 500 on with an empty body, with a capacity signal in the body, and
\* with another body.  "conn_err" is ConnectError or ConnectTimeout,
\* "read_err" is ReadTimeout or ReadError, "other_exc" any other exception.
Outcomes == {"ok", "ok_badjson", "html", "html_4xx", "html_auth", "html_5xx",
             "auth", "5xx_empty", "5xx_capacity", "5xx_other",
             "conn_err", "read_err", "other_exc"}

\* The site an attempt of the request with locals r goes to.
SiteOf(r) == (r.start_index + r.tried_sites) % NumSites

\* The state a handler step works on: the health map, the router's index
\* and counter, the handler's locals and the record of what the step did.
Work(h) ==
    [ah |-> account_health, idx |-> current_site_index, cnt |-> site_fail_count,
     r |-> req[h], e |-> [NoEvent EXCEPT !.h = h]]

\* proxy() is left without an upstream response to hand on: HTTPException
\* 503 or 502, or ("raise") an exception that nothing in proxy() catches.
Ended(st, status) == [st EXCEPT !.r = IdleReq, !.e.status = status]

\* Top of the site loop: the locals cookies (whether it holds what
\* get_waf_cookies() returned, or the empty map) and proxy_config (whether
\* it is HTTP_PROXY, or None) are set for the site; get_waf_cookies() is
\* called if the site needs it, whose exception leaves proxy(); then the
\* first upstream request is sent with these two locals.
StartSite_KeepsCookies(st) ==
    {[st EXCEPT !.r.pc = "sending", !.e.sent = TRUE,
                !.r.cookies = @ \/ NeedWaf(SiteOf(st.r)),
                !.r.proxy_config = UseProxy(SiteOf(st.r))]}
        \cup (IF NeedWaf(SiteOf(st.r)) THEN {Ended(st, "raise")} ELSE {})

StartSite(st) ==
    {[st EXCEPT !.r.pc = "sending", !.e.sent = TRUE,
                !.r.cookies = NeedWaf(SiteOf(st.r)),
                !.r.proxy_config = UseProxy(SiteOf(st.r))]}
        \cup (IF NeedWaf(SiteOf(st.r)) THEN {Ended(st, "raise")} ELSE {})

\* Top of the account loop: get_next_account(tried_account_names) and the
\* start of the site loop at current_site_index.
NextAccount_Always502(st) ==
    LET excl == st.r.tried_account_names IN
    IF Cardinality(excl) >= MAX_ACCOUNT_RETRIES
    THEN {Ended(st, "502")}
    ELSE LET c == GetNextAccount(accounts, st.ah, excl, now)
         IN IF c = {}
            THEN {Ended([st EXCEPT !.e.picked = None, !.e.excluded = excl], "502")}
            ELSE UNION {StartSite([st EXCEPT !.r.account_name = a,
                                             !.r.tried_account_names = excl \cup {a},
                                             !.r.start_index = st.idx,
                                             !.r.tried_sites = 0,
                                             !.r.attempt = 0,
                                             !.e.picked = a,
                                             !.e.excluded = excl]) : a \in c}

NextAccount(st) ==
    LET excl == st.r.tried_account_names IN
    IF Cardinality(excl) >= MAX_ACCOUNT_RETRIES
    THEN {Ended(st, "502")}
    ELSE LET c == GetNextAccount(accounts, st.ah, excl, now)
         IN IF c = {}
            THEN {Ended([st EXCEPT !.e.picked = None, !.e.excluded = excl],
                        IF excl = {} THEN "503" ELSE "502")}
            ELSE UNION {StartSite([st EXCEPT !.r.account_name = a,
                                             !.r.tried_account_names = excl \cup {a},
                                             !.r.start_index = st.idx,
                                             !.r.tried_sites = 0,
                                             !.r.attempt = 0,
                                             !.e.picked = a,
                                             !.e.excluded = excl]) : a \in c}

\* record_account_failure(account_name) and on to the next account;
\* account_error is the handler's flag at that moment.
AccountFailed_Twice(st, account_error) ==
    NextAccount([st EXCEPT !.ah = RecordAccountFailure(
                                      RecordAccountFailure(st.ah, st.r.account_name, now),
                                      st.r.account_name, now),
                           !.e.failed = st.r.account_name,
                           !.e.account_error = account_error])

AccountFailed(st, account_error) ==
    NextAccount([st EXCEPT !.ah = RecordAccountFailure(st.ah, st.r.account_name, now),
                           !.e.failed = st.r.account_name,
                           !.e.account_error = account_error])

\* "All retries failed": record_site_failure() and the next site, or, with
\* all sites tried, the account failure of line 1047.
SiteFailed_SameSite(st) ==
    LET sf == RecordSiteFailure(st.idx, st.cnt)
        st1 == [st EXCEPT !.idx = sf[1], !.cnt = sf[2], !.e.site_failed = TRUE,
                          !.r.attempt = 0]
    IN StartSite(st1)

SiteFailed(st) ==
    LET sf == RecordSiteFailure(st.idx, st.cnt)
        n == st.r.rotations + (IF st.cnt + 1 >= MAX_SITE_FAILS THEN 1 ELSE 0)
        st1 == [st EXCEPT !.idx = sf[1], !.cnt = sf[2], !.e.site_failed = TRUE,
                          !.r.tried_sites = @ + 1, !.r.attempt = 0,
                          !.r.rotations = n, !.e.rotations = n]
    IN IF st1.r.tried_sites < NumSites
       THEN StartSite(st1)
       ELSE AccountFailed(st1, FALSE)

\* continue: the next attempt on the same site, if the for loop has one.
NextAttempt_GivesUp(st) == SiteFailed(st)

NextAttempt(st) ==
    IF st.r.attempt + 1 < MaxRetries(SiteOf(st.r))
    THEN {[st EXCEPT !.r.attempt = @ + 1, !.e.sent = TRUE]}
    ELSE SiteFailed(st)

\* "成功 - 更新状态": the sticky winner, record_site_success() and
\* record_account_success().
Won_AtEndOfStream(st) ==
    IF st.r.is_stream
    THEN [st EXCEPT !.r.won = SiteOf(st.r),
                    !.e.succeeded = st.r.account_name,
                    !.e.was_disabled = ~IsAccountHealthy(st.ah, st.r.account_name, now)]
    ELSE [st EXCEPT !.idx = SiteOf(st.r),
                    !.cnt = 0,
                    !.ah = RecordAccountSuccess(st.ah, st.r.account_name),
                    !.r.won = SiteOf(st.r),
                    !.e.succeeded = st.r.account_name,
                    !.e.was_disabled = ~IsAccountHealthy(st.ah, st.r.account_name, now)]

Won(st) ==
    [st EXCEPT !.idx = SiteOf(st.r),
               !.e.moved_from = IF SiteOf(st.r) # st.idx THEN st.idx ELSE -1,
               !.cnt = 0,
               !.ah = RecordAccountSuccess(st.ah, st.r.account_name),
               !.r.won = SiteOf(st.r),
               !.e.succeeded = st.r.account_name,
               !.e.was_disabled = ~IsAccountHealthy(st.ah, st.r.account_name, now)]

\* The response is accepted.  A streaming request returns a
\* StreamingResponse over the open upstream client and response, with some
\* number of chunks still to come; a non-streaming one builds its
\* JSONResponse and leaves "async with", which closes the client.
Succeeded_ScopedClient(st) ==
    IF st.r.is_stream
    THEN {[Won(st) EXCEPT !.r.pc = "streaming", !.r.open = FALSE, !.r.chunks = n]
             : n \in 0 .. MaxChunks}
    ELSE {[Won(st) EXCEPT !.r.pc = "closing"]}

Succeeded(st) ==
    IF st.r.is_stream
    THEN {[Won(st) EXCEPT !.r.pc = "streaming", !.r.open = TRUE, !.r.chunks = n]
             : n \in 0 .. MaxChunks}
    ELSE {[Won(st) EXCEPT !.r.pc = "closing"]}

\* Non-streaming: response.json() raises after the success was recorded, and
\* "except Exception" sends the handler to the next site.
ParseFailed(st) == SiteFailed(Won(st))

\* The body of the attempt loop from the response on.  Where the code calls
\* refresh_waf_cookies(), both its return and its exception are followed.
OnResponse(st0, o) ==
    LET st == [st0 EXCEPT !.e.outcome = o]
        i == SiteOf(st.r)
        last == st.r.attempt >= MaxRetries(i) - 1
        stream == st.r.is_stream
        Challenge == IF NeedWaf(i) THEN NextAttempt(st) \cup SiteFailed(st)
                     ELSE NextAttempt(st)
    IN CASE o = "ok" -> Succeeded(st)
         [] o = "ok_badjson" -> IF stream THEN Succeeded(st) ELSE ParseFailed(st)
         [] o = "html" -> Challenge
         [] o = "html_4xx" -> IF stream THEN Challenge ELSE Succeeded(st)
         [] o = "html_auth" -> IF stream THEN Challenge ELSE AccountFailed(st, TRUE)
         [] o = "html_5xx" -> IF stream THEN Challenge ELSE AccountFailed(st, TRUE)
         [] o = "auth" -> AccountFailed(st, TRUE)
         [] o = "5xx_empty" ->
              IF NeedWaf(i)
              THEN SiteFailed(st) \cup (IF ~last THEN NextAttempt(st)
                                        ELSE AccountFailed(st, TRUE))
              ELSE AccountFailed(st, TRUE)
         [] o = "5xx_capacity" ->
              IF st.r.attempt = 0
              THEN NextAttempt([st EXCEPT !.e.slept = CAPACITY_WAIT])
              ELSE AccountFailed(st, TRUE)
         [] o = "5xx_other" -> AccountFailed(st, TRUE)
         [] o = "conn_err" ->
              IF ~last
              THEN NextAttempt(st) \cup (IF NeedWaf(i) THEN {Ended(st, "raise")} ELSE {})
              ELSE SiteFailed(st)
         [] o = "read_err" -> NextAttempt(st)
         [] o = "other_exc" -> SiteFailed(st)

ProxyFrame == UNCHANGED <<cache_vars, browser, bm_vars>>

\* The step leaves the shared state and the handler's locals as st has them.
Apply_KeepsRecovery(h, st) ==
    /\ account_health' = st.ah
    /\ current_site_index' = IF st.e.moved_from = 0 THEN 0 ELSE st.idx
    /\ site_fail_count' = st.cnt
    /\ req' = [req EXCEPT ![h] = st.r]
    /\ ev' = st.e

Apply(h, st) ==
    /\ account_health' = st.ah
    /\ current_site_index' = st.idx
    /\ site_fail_count' = st.cnt
    /\ req' = [req EXCEPT ![h] = st.r]
    /\ ev' = st.e

\* A request arrives at proxy(), streaming or not.  Handlers are
\* interchangeable: they are numbered in the order in which they are taken.
Begin(h) ==
    /\ req[h].pc = "idle"
    /\ h = "h2" => req["h1"].pc # "idle"
    /\ requests < MaxRequests
    /\ requests' = requests + 1
    /\ \E is_stream \in BOOLEAN :
          \E st \in NextAccount([Work(h) EXCEPT !.r.is_stream = is_stream]) :
              Apply(h, st)
    /\ UNCHANGED <<now, accounts, loads, probe>>
    /\ ProxyFrame

\* A request arrives at proxy() with API-key validation enabled and is
\* turned away: extract_api_key() finds no key ("missing"), or
\* validate_api_key() answers that the key is not valid ("invalid": from its
\* cache, from the user database, or because the call failed).  proxy()
\* raises HTTPException 401 before it reads the body.
BadKeys == {"missing", "invalid"}

Reject_Late(h, key) ==
    /\ key \in BadKeys
    /\ req[h].pc = "idle"
    /\ h = "h2" => req["h1"].pc # "idle"
    /\ requests < MaxRequests
    /\ requests' = requests + 1
    /\ \E st \in NextAccount(Work(h)) :
          Apply(h, [st EXCEPT !.r = IdleReq, !.e.status = "401"])
    /\ UNCHANGED <<now, accounts, loads, probe>>
    /\ ProxyFrame

Reject(h, key) ==
    /\ key \in BadKeys
    /\ req[h].pc = "idle"
    /\ h = "h2" => req["h1"].pc # "idle"
    /\ requests < MaxRequests
    /\ requests' = requests + 1
    /\ ev' = [NoEvent EXCEPT !.h = h, !.status = "401"]
    /\ UNCHANGED <<now, pool_vars, site_vars, req, probe>>
    /\ ProxyFrame

\* The upstream request of a handler returns or raises.
Response(h, o) ==
    /\ req[h].pc = "sending"
    /\ \E st \in OnResponse(Work(h), o) : Apply(h, st)
    /\ UNCHANGED <<now, accounts, loads, probe, requests>>
    /\ ProxyFrame

\* A non-streaming request completes: its client is closed on leaving
\* "async with" and proxy() returns the JSONResponse.
Complete(h) ==
    /\ req[h].pc = "closing"
    /\ req' = [req EXCEPT ![h] = IdleReq]
    /\ ev' = [NoEvent EXCEPT !.h = h, !.completed = req[h].won]
    /\ UNCHANGED <<now, pool_vars, site_vars, probe, requests>>
    /\ ProxyFrame

\* stream_response() yields one more chunk of the upstream body.
StreamChunk(h) ==
    /\ req[h].pc = "streaming"
    /\ req[h].chunks > 0
    /\ req' = [req EXCEPT ![h].chunks = @ - 1, ![h].chunk_count = @ + 1]
    /\ ev' = [NoEvent EXCEPT !.h = h]
    /\ UNCHANGED <<now, pool_vars, site_vars, probe, requests>>
    /\ ProxyFrame

\* stream_response() ends: aiter_bytes() is exhausted, or an exception is
\* raised inside the generator; its finally block closes the upstream
\* response and client.
StreamEnd(h, raised) ==
    /\ req[h].pc = "streaming"
    /\ raised \/ req[h].chunks = 0
    /\ req' = [req EXCEPT ![h] = IdleReq]
    /\ ev' = [NoEvent EXCEPT !.h = h, !.completed = req[h].won,
                             !.closed = TRUE, !.raised = raised,
                             !.undelivered = req[h].chunks]
    /\ UNCHANGED <<now, pool_vars, site_vars, probe, requests>>
    /\ ProxyFrame

\* The client goes away while the StreamingResponse is being sent.  If the
\* framework has begun to iterate stream_response() (started), the
\* cancellation is raised at the generator's await and its finally block
\* closes the upstream response and client.  If the generator was never
\* entered (the client was gone before the first chunk was asked for), it is
\* dropped unstarted: none of its code runs, its finally block included,
\* and the upstream response and client stay open.
Disconnect(h, started) ==
    /\ req[h].pc = "streaming"
    /\ req[h].chunk_count > 0 => started
    /\ IF started
       THEN /\ req' = [req EXCEPT ![h] = IdleReq]
            /\ ev' = [NoEvent EXCEPT !.h = h, !.completed = req[h].won,
                                     !.closed = TRUE, !.raised = TRUE,
                                     !.undelivered = req[h].chunks]
       ELSE /\ req' = [req EXCEPT ![h].pc = "abandoned"]
            /\ ev' = [NoEvent EXCEPT !.h = h]
    /\ UNCHANGED <<now, pool_vars, site_vars, probe, requests>>
    /\ ProxyFrame

\* load_accounts(): lifespan and POST /reload.  The accounts of the file are
\* interchangeable: the file lists none, "A", "A" and "B", or all four.
LoadAccounts(S) ==
    /\ S \in Files \cup {AllAccounts}
    /\ loads < MaxLoads
    /\ loads' = loads + 1
    /\ accounts' = S
    /\ ev' = NoEvent
    /\ UNCHANGED <<now, account_health, site_vars, req, probe, requests>>
    /\ ProxyFrame

\* What the HEAD request of check_primary_site_health() comes back with: a
\* response that is not text/html with a status below 500, a text/html
\* response, another response with a status from 500 on, or an exception.
ProbeOutcomes == {"ok", "html", "5xx", "exc"}

\* check_primary_site_health()
CheckPrimarySiteHealth_HtmlHealthy(o) == o \in {"ok", "html"}

CheckPrimarySiteHealth(o) == o = "ok"

\* scheduled_primary_site_check() and POST /switch-to-primary up to their
\* await of check_primary_site_health(); on the primary site they return at
\* once, which is no step.
ProbeStart(p) ==
    /\ probe[p] = "idle"
    /\ current_site_index # 0
    /\ probe' = [probe EXCEPT ![p] = "checking"]
    /\ ev' = NoEvent
    /\ UNCHANGED <<now, pool_vars, site_vars, req, requests>>
    /\ ProxyFrame

\* check_primary_site_health() returns.
ProbeEnd(p, o) ==
    /\ probe[p] = "checking"
    /\ probe' = [probe EXCEPT ![p] = "idle"]
    /\ current_site_index' = IF CheckPrimarySiteHealth(o) THEN 0 ELSE current_site_index
    /\ site_fail_count' = IF CheckPrimarySiteHealth(o) THEN 0 ELSE site_fail_count
    /\ ev' = [NoEvent EXCEPT !.probe = o]
    /\ UNCHANGED <<now, pool_vars, req, requests>>
    /\ ProxyFrame

\* POST /force-switch-to-primary
ForceSwitch ==
    /\ current_site_index # 0 \/ site_fail_count # 0
    /\ current_site_index' = 0
    /\ site_fail_count' = 0
    /\ ev' = NoEvent
    /\ UNCHANGED <<now, pool_vars, req, probe, requests>>
    /\ ProxyFrame

\* Half of an account's disable window passes.
ProxyTick ==
    /\ now + ACCOUNT_DISABLE_DURATION \div 2 <= MaxClock
    /\ now' = now + ACCOUNT_DISABLE_DURATION \div 2
    /\ ev' = NoEvent
    /\ UNCHANGED <<pool_vars, site_vars, req, probe, requests>>
    /\ ProxyFrame

\* One request at a time and the accounts file loaded at any moment, with
\* everything the upstream can answer; the clock stands still.
NextPool ==
    \/ Begin("h1")
    \/ \E o \in Outcomes : Response("h1", o)
    \/ Complete("h1")
    \/ StreamChunk("h1")
    \/ \E raised \in BOOLEAN : StreamEnd("h1", raised)
    \/ \E S \in Files : LoadAccounts(S)

SpecPool == Init /\ [][NextPool]_vars

\* Two requests in flight over a pool of one account, with the primary-site
\* check and POST /force-switch-to-primary: the router under concurrency.
\* The upstream gives one answer for each way the handler goes on: success,
\* success with a body that does not parse, account error, an error that is
\* retried, and one that fails the site at once.
Ways == {"ok", "ok_badjson", "auth", "conn_err", "other_exc"}

BeginBurst(h) ==
    /\ requests < MaxBurst
    /\ Begin(h)

NextProxy ==
    \/ \E h \in Handlers : BeginBurst(h)
    \/ \E h \in Handlers, o \in Ways : Response(h, o)
    \/ \E h \in Handlers : Complete(h)
    \/ \E h \in Handlers : StreamChunk(h)
    \/ \E h \in Handlers, raised \in BOOLEAN : StreamEnd(h, raised)
    \/ LoadAccounts({"A"})
    \/ \E p \in Probers : ProbeStart(p)
    \/ \E p \in Probers, o \in ProbeOutcomes : ProbeEnd(p, o)
    \/ ForceSwitch

SpecProxy == Init /\ [][NextProxy]_vars

\* Two requests in flight over a pool of two accounts and an upstream that
\* is reachable: every attempt is answered with a success, an authentication
\* error or a capacity signal.
Reachable == {"ok", "auth", "5xx_capacity"}

\* One request at a time over a reachable upstream and a pool of one
\* account or of four, more than the MAX_ACCOUNT_RETRIES a request may try.
NextBudget ==
    \/ Begin("h1")
    \/ \E key \in BadKeys : Reject("h1", key)
    \/ \E o \in Reachable : Response("h1", o)
    \/ Complete("h1")
    \/ StreamChunk("h1")
    \/ \E raised \in BOOLEAN : StreamEnd("h1", raised)
    \/ \E S \in {{"A"}, AllAccounts} : LoadAccounts(S)

SpecBudget == Init /\ [][NextBudget]_vars

\* One request at a time over a reachable upstream while time passes: the
\* disable windows of the accounts.
NextClock ==
    \/ Begin("h1")
    \/ \E o \in Reachable : Response("h1", o)
    \/ Complete("h1")
    \/ StreamChunk("h1")
    \/ \E raised \in BOOLEAN : StreamEnd("h1", raised)
    \/ \E S \in Files : LoadAccounts(S)
    \/ ProxyTick

SpecClock == Init /\ [][NextClock]_vars

NextBurst ==
    \/ \E h \in Handlers : Begin(h)
    \/ \E h \in Handlers, o \in Reachable : Response(h, o)
    \/ \E h \in Handlers : Complete(h)
    \/ \E h \in Handlers : StreamChunk(h)
    \/ \E h \in Handlers, raised \in BOOLEAN : StreamEnd(h, raised)
    \/ \E h \in Handlers, started \in BOOLEAN : Disconnect(h, started)
    \/ LoadAccounts({"A", "B"})

SpecBurst == Init /\ [][NextBurst]_vars

\* MaxBurst requests, one at a time, over a pool of four accounts and an
\* upstream that fails in each way the loops of proxy() tell apart: a success, an account
\* error, an error that is retried on the same site, and one that gives the
\* site up at once.
Faults == {"ok", "auth", "read_err", "other_exc"}

NextTurns ==
    \/ BeginBurst("h1")
    \/ \E o \in Faults : Response("h1", o)
    \/ Complete("h1")
    \/ StreamChunk("h1")
    \/ \E raised \in BOOLEAN : StreamEnd("h1", raised)
    \/ LoadAccounts(AllAccounts)

SpecTurns == Init /\ [][NextTurns]_vars

\* One request at a time over one account, with the primary-site check
\* and POST /force-switch-to-primary: a recovery of the primary while a
\* request is in flight.
NextRecovery ==
    \/ Begin("h1")
    \/ \E o \in Ways : Response("h1", o)
    \/ Complete("h1")
    \/ StreamChunk("h1")
    \/ \E raised \in BOOLEAN : StreamEnd("h1", raised)
    \/ LoadAccounts({"A"})
    \/ \E p \in Probers : ProbeStart(p)
    \/ \E p \in Probers, o \in ProbeOutcomes : ProbeEnd(p, o)
    \/ ForceSwitch

SpecRecovery == Init /\ [][NextRecovery]_vars

\* ================================================================ claims
NumOf(x) == Cardinality({i \in DOMAIN op_log : op_log[i] = x})
NoForceCalls == \A f \in Forcers : pc[f] = "idle"
InBrowser == {"fetching", "restart_wait", "restarting"}

\* C1: single-flight.  Whatever get_cookies(), force_refresh(), the
\* pre-refresh task and the background loop do, at most one task is inside
\* the browser fetch of _do_refresh_internal at any instant.
C1_SingleFlight == Cardinality({t \in Tasks : pc[t] = "fetching"}) <= 1

C1_Witness ==
    /\ pc["bg"] = "fetching"
    /\ pc["g1"] = "lock_wait"
    /\ pc["f1"] = "lock_wait"

\* C2: two get_cookies() callers on an EMPTY or EXPIRED entry, the second
\* calling while the first one's refresh is in flight, no force_refresh() in
\* the run: if the first fetch of that refresh succeeds, the second caller
\* runs no refresh of its own and both return the map that fetch installed.
C2_Case(w, l) ==
    /\ w # l
    /\ NoForceCalls
    /\ pc[w] = "done"
    /\ pc[l] = "done"
    /\ seen[w] \in {"EMPTY", "EXPIRED"}
    /\ ran[w] # 0
    /\ result[w] = ran[w]
    /\ behind[l] = ran[w]

C3_ExactlyOneMore ==
    ( /\ pc["f1"] = "done"
      /\ pc["f2"] = "done"
      /\ behind["f1"] # 0
      /\ behind["f1"] = behind["f2"] )
    => Cardinality({f \in Forcers : ran[f] # 0}) = 1

\* C4: the pre-refresh task that get_cookies() created on an EXPIRING entry
\* with no refresh in flight starts a browser fetch when it runs while the
\* entry is still EXPIRING.
C4_PreRefreshFetches ==
    [][ ( /\ pc["pre"] = "created"
          /\ lock_holder = None
          /\ lock_queue = <<>>
          /\ State = "EXPIRING"
          /\ pc'["pre"] # "created" )
        => pc'["pre"] = "fetching" ]_vars

\* C5: with the background loop running from the start and every fetch
\* succeeding, the entry is never EXPIRED once cookies are installed, and the
\* get_cookies() caller neither waits for a refresh nor runs one itself.
C5_NeverExpired ==
    cookies # EmptyJar =>
        (State # "EXPIRED" /\ pc["g1"] \notin {"lock_wait", "cond_wait", "fetching"})

\* C6: a caller blocked inside _refresh_with_lock behind a refresh in flight
\* has stopped waiting once 120 s have passed.
C6_WaitBounded ==
    \A t \in Tasks :
        pc[t] \in {"lock_wait", "cond_wait"} => now - wait_since[t] <= WAIT_TIMEOUT

\* C7: cookie coherence.  Whenever the state property reads VALID the map
\* is non-empty, no refresh is in flight (neither the flag nor a task in the
\* browser) and now < expire_at - REFRESH_BEFORE, hence now < expire_at.
C7_Coherence ==
    State = "VALID" =>
        /\ cookies # EmptyJar
        /\ ~is_refreshing
        /\ \A t \in Tasks : pc[t] \notin InBrowser
        /\ now < expire_time - WAF_COOKIE_REFRESH_BEFORE
        /\ now < expire_time

C7_Witness ==
    /\ State = "VALID"
    /\ \E g \in Getters : pc[g] = "done" /\ seen[g] = "VALID" /\ result[g] = cookies

\* C8: one refresh operation makes at most 1 + MAX_RETRIES fetches and at
\* most MAX_RETRIES restarts; a restart only follows a browser-disconnect
\* error and every fetch but the first directly follows a successful restart;
\* from its first fetch to its outcome the flag is set and the lock is held.
C8_RetryBudget ==
    /\ NumOf("F") <= 1 + MAX_RETRIES
    /\ NumOf("Rok") + NumOf("Rfail") <= MAX_RETRIES
    /\ \A i \in DOMAIN op_log :
          /\ (op_log[i] = "F" /\ i > 1) => op_log[i - 1] = "Rok"
          /\ op_log[i] \in {"Rok", "Rfail"} => (i > 1 /\ op_log[i - 1] = "browser_err")
    /\ cur_op # 0 =>
          /\ is_refreshing
          /\ lock_holder = op_task
          /\ pc[op_task] \in InBrowser

C8_Witness ==
    /\ op_log = <<"F", "browser_err", "Rok", "F", "browser_err", "Rok", "F">>
    /\ is_refreshing
    /\ \E t \in Callers : pc[t] = "lock_wait"

\* C9: a refresh whose first fetch fails with a browser-disconnect error and
\* whose restart and second fetch succeed installs the new map with a new
\* expiry and hands it to its caller, restart_count is one more than when the
\* refresh started, and from the moment cookies are present no caller of
\* get_cookies() or force_refresh() is handed an error.
RecoveredLog == <<"F", "browser_err", "Rok", "F", "ok">>

C9_Install ==
    (op_log' = RecoveredLog /\ op_log # op_log') =>
        /\ cookies' = total_refreshes
        /\ cookies' # cookies
        /\ expire_time' = now + WAF_COOKIE_TTL
        /\ restart_count' = op_restarts0 + 1
        /\ ~is_refreshing'
        /\ op_task \in Callers => result'[op_task] = cookies'

C9_NoError ==
    cookies # EmptyJar => \A t \in Callers : result'[t] = Err => result[t] = Err

C9_RecoverAfterRestart == [][C9_Install /\ C9_NoError]_vars

C9_Witness ==
    /\ op_log = RecoveredLog
    /\ cur_op = 0
    /\ cookies = total_refreshes
    /\ restart_count = op_restarts0 + 1
    /\ \E t \in Getters : /\ pc[t] = "done"
                          /\ behind[t] = total_refreshes - 1
                          /\ result[t] = cookies

\* C10: a refresh that ends in failure hands its caller the cached map if
\* it is non-empty and an error otherwise, and while a refresh is in flight
\* the map and expire_at change only when a fetch succeeds (or when a
\* force_refresh() call zeroes expire_at): a failed fetch leaves both alone.
FailedEnd == cur_op = 0 /\ op_log # <<>> /\ op_log[Len(op_log)] # "ok"

C10_Result ==
    (FailedEnd /\ op_task \in Callers) =>
        result[op_task] = IF cookies # EmptyJar THEN cookies ELSE Err

C10_Frame ==
    (cur_op # 0 /\ <<cookies, expire_time>>' # <<cookies, expire_time>>) =>
        \/ cur_op' = 0 /\ op_log'[Len(op_log')] = "ok"
        \/ \E f \in Forcers : /\ pc[f] = "idle"
                              /\ pc'[f] # "idle"
                              /\ cookies' = cookies
                              /\ expire_time' = 0

C10_FailureKeepsEntry == []C10_Result /\ [][C10_Frame]_vars

C10_Witness ==
    /\ FailedEnd
    /\ Len(op_log) = 8
    /\ op_task \in Callers
    /\ cookies # EmptyJar
    /\ result[op_task] = cookies

\* C11: every refresh, whether its fetch succeeds, its fetch fails or its
\* browser restart raises, ends with the flag cleared, the lock released and
\* nobody left in condition.wait(); the flag is set only while the task that
\* holds the lock is inside a browser operation, so the entry reads
\* REFRESHING only then, and a caller suspended in _refresh_with_lock is
\* either behind such an operation or queued on a lock that is free.
Blocked == {"lock_wait", "cond_wait", "cond_reacq", "cond_timeout"}

C11_Refreshing ==
    /\ is_refreshing <=> State = "REFRESHING"
    /\ is_refreshing => (lock_holder # None /\ pc[lock_holder] \in InBrowser)
    /\ \A t \in Tasks :
          pc[t] \in Blocked =>
              \/ lock_holder # None /\ pc[lock_holder] \in InBrowser
              \/ /\ lock_holder = None
                 /\ \E i \in DOMAIN lock_queue : lock_queue[i] = t

C11_End ==
    (cur_op # 0 /\ cur_op' = 0) =>
        /\ ~is_refreshing'
        /\ lock_holder' = None
        /\ \A t \in Tasks : pc'[t] # "cond_wait"
        /\ pc'[op_task] \notin InBrowser

C11_RefreshAlwaysEnds == []C11_Refreshing /\ [][C11_End]_vars

C11_Witness ==
    /\ cur_op = 0
    /\ op_log # <<>>
    /\ op_log[Len(op_log)] = "Rfail"
    /\ ~is_refreshing
    /\ lock_holder = None
    /\ \E t \in Callers : /\ pc[t] = "lock_wait"
                          /\ behind[t] # 0
                          /\ \E i \in DOMAIN lock_queue : lock_queue[i] = t

\* C12: at most one browser process launched by the Browser Manager is alive
\* at any instant, and it is the one _browser references, under every
\* interleaving of start() and stop() from the lifespan hook,
\* ensure_running() and restart() from the cookie refresh, and restart()
\* from the background loop and the admin endpoint; a launch only begins
\* once the previous process is gone, and one call at a time is inside the
\* lock.
C12_OneBrowser ==
    /\ Cardinality(bm_procs) <= 1
    /\ bm_procs \subseteq {bm_browser}
    /\ \A t \in BmTasks :
          bm_pc[t] = "launching" => (bm_procs = {} /\ bm_browser = NoBrowser)
    /\ \A t \in BmTasks : bm_pc[t] \in {"closing", "launching"} => br_lock = t

C12_Witness ==
    /\ bm_launched >= 2
    /\ restart_count >= 1
    /\ Cardinality(bm_procs) = 1
    /\ bm_pc["lifespan"] = "closing"
    /\ bm_op["lifespan"] = "stop"
    /\ Len(bm_queue) >= 2

\* C13: account gating.  Whenever a handler sends an upstream request, the
\* account it sends with is not inside its disable window at that moment,
\* unless the pool holds no account that is eligible and that this request
\* has not tried yet.
Eligible(r) ==
    {a \in accounts : IsAccountHealthy(account_health, a, now)
                          /\ a \notin r.tried_account_names}

C13_Gated ==
    ev.sent =>
        \/ IsAccountHealthy(account_health, req[ev.h].account_name, now)
        \/ Eligible(req[ev.h]) = {}

\* C14: get_next_account(excluded) returns an account that is eligible and
\* not excluded whenever one exists; otherwise some non-excluded account
\* (degraded); nothing only when every loaded account is excluded or none is
\* loaded; and never an excluded account.
C14_Selection ==
    ev.picked # NoPick =>
        LET rest == accounts \ ev.excluded
            elig == {a \in rest : IsAccountHealthy(account_health, a, now)}
        IN /\ elig # {} => ev.picked \in elig
           /\ (elig = {} /\ rest # {}) => ev.picked \in rest
           /\ ev.picked = None <=> rest = {}
           /\ ev.picked \notin ev.excluded

C14_Witness ==
    /\ ev.picked = "B"
    /\ ev.excluded = {"A"}
    /\ ~IsAccountHealthy(account_health, "B", now)
    /\ IsAccountHealthy(account_health, "A", now)
    /\ req[ev.h].pc = "sending"

\* C15: fail_count is latched at ACCOUNT_MAX_FAILS: it never exceeds 3, and
\* a failure recorded while the account is inside its disable window leaves
\* disabled_until where it was.
C15_Count == \A a \in AllAccounts : account_health[a].fail_count <= ACCOUNT_MAX_FAILS

C15_Window ==
    \A a \in AllAccounts :
        (ev'.failed = a /\ ~IsAccountHealthy(account_health, a, now)) =>
            account_health'[a].disabled_until = account_health[a].disabled_until

C15_Latched == []C15_Count /\ [][C15_Window]_vars

\* C16: an account inside its disable window is picked for no request
\* (other than in degraded mode, when no eligible account is left to pick),
\* and once the window has elapsed the account is eligible with fresh
\* counters: its fail_count reads 0.
Elapsed(a) ==
    /\ account_health[a].disabled_until > 0
    /\ now >= account_health[a].disabled_until

C16_Fresh ==
    \A a \in AllAccounts :
        /\ (ev.picked = a /\ ~IsAccountHealthy(account_health, a, now)) =>
               \A b \in accounts \ ev.excluded :
                   ~IsAccountHealthy(account_health, b, now)
        /\ Elapsed(a) =>
               /\ IsAccountHealthy(account_health, a, now)
               /\ account_health[a].fail_count = 0

\* C17: a handler step in which a request succeeds through an account
\* (its response is accepted and handed to the client) leaves that account with a zero record (fail_count, last_fail and
\* disabled_until all 0, or no record at all), hence eligible at once even
\* if it was picked in degraded mode, and leaves the records of the other
\* accounts as they were.
C17_Step ==
    \A a \in AllAccounts :
        (ev'.succeeded = a /\ ~ev'.site_failed) =>
            /\ account_health'[a].fail_count = 0
            /\ account_health'[a].last_fail = 0
            /\ account_health'[a].disabled_until = 0
            /\ IsAccountHealthy(account_health', a, now')
            /\ \A b \in AllAccounts \ {a} : account_health'[b] = account_health[b]

C17_SuccessResets == [][C17_Step]_vars

C17_Witness ==
    /\ ev.succeeded = "A"
    /\ ev.was_disabled
    /\ account_health["A"] = [NoHealth EXCEPT !.present = TRUE]
    /\ account_health["B"].fail_count > 0

\* C18: record_account_failure is called only when the handler has
\* classified the outcome as account-specific (its account_error flag is
\* set); a request whose attempts all fail with connect or read errors, on
\* every site, records no account failure.
C18_Attributed == ev.failed # None => ev.account_error

\* C19: site counter invariant.  Between task steps site_fail_count is
\* below MAX_SITE_FAILS and current_site_index is a valid index of SITES;
\* the site failure that would bring the counter to 3 advances the index by
\* exactly one modulo the number of sites and sets the counter to 0, and any
\* other site failure adds one to the counter and leaves the index alone
\* (a failure recorded in the step that had just recorded a success counts
\* from the zeroed counter).
C19_Range ==
    /\ site_fail_count \in 0 .. (MAX_SITE_FAILS - 1)
    /\ current_site_index \in 0 .. (NumSites - 1)

C19_Failure ==
    ev'.site_failed =>
        IF ev'.succeeded # None
        THEN site_fail_count' = 1
        ELSE IF site_fail_count = MAX_SITE_FAILS - 1
        THEN /\ current_site_index' = (current_site_index + 1) % NumSites
             /\ site_fail_count' = 0
        ELSE /\ current_site_index' = current_site_index
             /\ site_fail_count' = site_fail_count + 1

C19_SiteCounter == []C19_Range /\ [][C19_Failure]_vars

C19_Witness ==
    /\ ev.site_failed
    /\ site_fail_count = 0
    /\ current_site_index = 0
    /\ \E h \in Handlers : req[h].pc = "closing"

\* C20: sticky winner.  When a request that succeeded on site i completes
\* (its client is closed and proxy() has returned, or its streamed body has
\* been sent), current_site_index is i, whatever other requests, the
\* primary-site check and the admin switches did meanwhile.
C20_StickyWinner == ev.completed # -1 => current_site_index = ev.completed

\* C21: one client request causes at most one threshold rotation of
\* current_site_index through the site failures it records, whatever the
\* counter was when it started and however many accounts and sites it tries.
C21_OneRotation == ev.rotations <= 1

\* C22: the primary-site check starts only when current_site_index is not
\* 0; when its health request comes back healthy (not text/html, status
\* below 500) the step sets current_site_index and site_fail_count to 0, and
\* when it comes back unhealthy (text/html, status from 500 on, or an
\* exception) the step leaves both as they are.
C22_Step ==
    /\ \A p \in Probers :
          (probe[p] = "idle" /\ probe'[p] = "checking") =>
              /\ current_site_index # 0
              /\ UNCHANGED site_vars
    /\ ev'.probe = "ok" => (current_site_index' = 0 /\ site_fail_count' = 0)
    /\ ev'.probe \in {"html", "5xx", "exc"} => UNCHANGED site_vars

C22_PrimaryProbe == [][C22_Step]_vars

C22_Witness ==
    /\ ev.probe = "ok"
    /\ current_site_index = 0
    /\ site_fail_count = 0
    /\ \E h \in Handlers : req[h].pc = "sending" /\ req[h].start_index # 0

\* C23: a request that finds no account on the first iteration of the
\* account loop ends with 503 in a step that sends nothing upstream and
\* changes neither the health map, nor the router, nor the cookie entry; a
\* request that finds no account on a later iteration, or that has tried
\* MAX_ACCOUNT_RETRIES accounts, ends with 502.
C23_Step ==
    \A h \in Handlers :
        ev'.h = h =>
            /\ (ev'.picked = None /\ ev'.excluded = {}) =>
                   /\ ev'.status = "503"
                   /\ req'[h].pc = "idle"
                   /\ ~ev'.sent
                   /\ UNCHANGED <<account_health, site_vars, cache_vars>>
            /\ (ev'.picked = None /\ ev'.excluded # {}) =>
                   (ev'.status = "502" /\ req'[h].pc = "idle")
            /\ (ev'.failed # None
                    /\ Cardinality(req[h].tried_account_names) = MAX_ACCOUNT_RETRIES) =>
                   (ev'.status = "502" /\ req'[h].pc = "idle" /\ ~ev'.sent)
            /\ ev'.status = "503" => (ev'.picked = None /\ ev'.excluded = {})

C23_Exhaustion == [][C23_Step]_vars

C23_Witness ==
    /\ ev.status = "502"
    /\ ev.picked = NoPick
    /\ ev.failed # None
    /\ \E a \in accounts : /\ account_health[a] = NoHealth
                            /\ IsAccountHealthy(account_health, a, now)

\* C24: errors are absorbed inside a request.  A failure to obtain WAF
\* cookies (get_waf_cookies() or refresh_waf_cookies() raising) does not end
\* the request: proxy() is only ever left with an upstream success, with 503
\* or with 502.
C24_Absorbed == ev.status \in {None, "503", "502"}

\* C25: a 401 or 403 (not text/html) for account A ends A's turn in that
\* step: exactly one account failure is recorded for A and none for another
\* account, no site failure is recorded and the router is left alone, and
\* the handler goes on with a different account or, if it has none, ends;
\* it sends nothing more with A.
C25_Step ==
    \A h \in Handlers :
        (ev'.h = h /\ ev'.outcome = "auth") =>
            LET A == req[h].account_name IN
            /\ ev'.failed = A
            /\ ev'.account_error
            /\ account_health'[A].fail_count = account_health[A].fail_count + 1
            /\ \A b \in AllAccounts \ {A} : account_health'[b] = account_health[b]
            /\ ~ev'.site_failed
            /\ UNCHANGED site_vars
            /\ req'[h].account_name # A
            /\ req'[h].pc = "sending" =>
                   /\ ev'.picked = req'[h].account_name
                   /\ A \in ev'.excluded

C25_AuthEndsTurn == [][C25_Step]_vars

C25_Witness ==
    /\ ev.outcome = "auth"
    /\ ev.failed = "A"
    /\ ev.picked = "B"
    /\ req[ev.h].pc = "sending"
    /\ req[ev.h].tried_sites = 0
    /\ site_fail_count = 2

\* C26: a 5xx with a capacity signal on the first attempt at a site is
\* retried against the same account and site after a 2 s wait, with no
\* failure recorded; a capacity signal on a later attempt (under SpecBudget:
\* on the retry) marks the account failed exactly once, records no site
\* failure, and the handler goes on with another account.
C26_Step ==
    \A h \in Handlers :
        (ev'.h = h /\ ev'.outcome = "5xx_capacity") =>
            LET A == req[h].account_name IN
            IF req[h].attempt = 0
            THEN /\ req'[h] = [req[h] EXCEPT !.attempt = 1]
                 /\ ev'.slept = CAPACITY_WAIT
                 /\ ev'.sent
                 /\ ev'.failed = None
                 /\ ~ev'.site_failed
                 /\ UNCHANGED <<account_health, site_vars>>
            ELSE /\ req[h].attempt = 1
                 /\ ev'.slept = 0
                 /\ ev'.failed = A
                 /\ account_health'[A].fail_count = account_health[A].fail_count + 1
                 /\ \A b \in AllAccounts \ {A} : account_health'[b] = account_health[b]
                 /\ ~ev'.site_failed
                 /\ UNCHANGED site_vars
                 /\ req'[h].account_name # A

C26_CapacityRetry == [][C26_Step]_vars

C26_Witness ==
    /\ ev.outcome = "5xx_capacity"
    /\ ev.failed = "A"
    /\ account_health["A"].fail_count = 1
    /\ ev.picked = "B"
    /\ req[ev.h].pc = "sending"
    /\ req[ev.h].attempt = 0

\* C27: a text/html response, whatever its status and in both modes, is
\* never accepted: the step that receives it records no success, and it
\* records no account failure either (a challenge is the site's affair).
C27_Step ==
    ev'.outcome \in {"html", "html_4xx", "html_auth", "html_5xx"} =>
        /\ ev'.succeeded = None
        /\ ev'.failed = None \/ ev'.site_failed

C27_HtmlIsChallenge == [][C27_Step]_vars

\* C28: an empty 5xx from a need_waf site never marks an account error and
\* never records an account failure, on any attempt of the site's budget.
C28_Step ==
    \A h \in Handlers :
        (/\ ev'.h = h
         /\ ev'.outcome = "5xx_empty"
         /\ NeedWaf(SiteOf(req[h]))) =>
            /\ ~ev'.account_error
            /\ account_health'[req[h].account_name] =
                   account_health[req[h].account_name]

C28_EmptyIsWaf == [][C28_Step]_vars

\* C29: a non-HTML response below 500 other than 401/403 ends the request
\* in that step: success is recorded for the site and the account, no site
\* failure is recorded, and the handler sends nothing more upstream.
C29_Step ==
    \A h \in Handlers :
        (ev'.h = h /\ ev'.outcome \in {"ok", "ok_badjson"}) =>
            /\ ev'.succeeded = req[h].account_name
            /\ ~ev'.site_failed
            /\ ~ev'.sent
            /\ req'[h].pc \in {"closing", "streaming"}
            /\ site_fail_count' = 0
            /\ account_health'[req[h].account_name].fail_count = 0
            /\ account_health'[req[h].account_name].disabled_until = 0

C29_SuccessReturns == [][C29_Step]_vars

\* C30: stream lifetime.  While an accepted streaming response is being
\* forwarded its upstream client and response are open, and they are closed
\* only by the end of the stream: after the last chunk was yielded, or after
\* the stream raised.
C30_Open == \A h \in Handlers : req[h].pc = "streaming" => req[h].open

C30_Step ==
    \A h \in Handlers :
        (req[h].open /\ ~req'[h].open) =>
            /\ ev'.h = h
            /\ ev'.closed
            /\ ev'.raised \/ req[h].chunks = 0
            /\ ev'.undelivered = req[h].chunks

C30_StreamLifetime == []C30_Open /\ [][C30_Step]_vars

C30_Witness ==
    \E h \in Handlers :
        /\ req[h].pc = "streaming"
        /\ req[h].chunks > 0
        /\ req[h].open
        /\ ev.h = h
        /\ ev.succeeded = req[h].account_name

\* C31: every HTTP client opened for a streaming attempt is closed on every
\* path.  An upstream client that is open belongs to a stream that is still
\* being forwarded, whose end will close it; none is left open behind a
\* request that is over.
C31_Closed == \A h \in Handlers : req[h].open => req[h].pc = "streaming"

\* C32: the upstream request to a site with need_waf = false carries no WAF
\* cookies and does not go through the forward proxy, also when the request
\* tried the primary site just before; WAF cookies are attached only to
\* requests to need_waf sites.
C32_NoCookiesOnMirrors ==
    \A h \in Handlers :
        (req[h].pc = "sending" /\ ~NeedWaf(SiteOf(req[h]))) =>
            /\ ~req[h].cookies
            /\ ~req[h].proxy_config

C32_Witness ==
    \E h \in Handlers :
        /\ req[h].pc = "sending"
        /\ req[h].start_index = 0
        /\ req[h].tried_sites = 1
        /\ ev.h = h
        /\ ev.site_failed
        /\ ev.outcome = "html"
        /\ ~req[h].cookies

\* C33: with API-key validation enabled, a request whose key is missing or
\* not valid is rejected with 401 before any upstream work: the step picks
\* no account, sends nothing upstream, and leaves the accounts, their
\* health, the router, the cookie cache and the browser unchanged.
C33_Step ==
    ev'.status = "401" =>
        /\ ev'.picked = NoPick
        /\ ~ev'.sent
        /\ ev'.failed = None /\ ev'.succeeded = None /\ ~ev'.site_failed
        /\ \A h \in Handlers : req'[h].pc = req[h].pc
        /\ UNCHANGED <<pool_vars, site_vars, cache_vars, browser, bm_vars>>

C33_RejectedFirst == [][C33_Step]_vars

C33_Witness ==
    /\ ev.status = "401"
    /\ accounts # {}
    /\ account_health["A"].fail_count = 1
    /\ current_site_index = 0

\* C34: every proxied request terminates.  A request in flight has tried at
\* most MAX_ACCOUNT_RETRIES accounts, its current one among them, fewer than
\* NumSites sites with it, and fewer attempts on the site than the site's
\* budget (4 on a need_waf site, 2 on another).  Each step of the handler
\* that leaves it in flight either takes an account it has not tried before,
\* starting at the current_site_index of that moment with no site tried, or
\* keeps the account and the starting site and moves to the next attempt on
\* the same site or to the first attempt on the next site in offset order.
C34_Budget ==
    \A h \in Handlers :
        req[h].pc = "sending" =>
            /\ Cardinality(req[h].tried_account_names) <= MAX_ACCOUNT_RETRIES
            /\ req[h].account_name \in req[h].tried_account_names
            /\ req[h].tried_sites < NumSites
            /\ req[h].attempt < (IF NeedWaf(SiteOf(req[h])) THEN 4 ELSE 2)

C34_Step ==
    \A h \in Handlers :
        (ev'.h = h /\ req'[h].pc = "sending" /\ req'[h] # req[h]) =>
            IF ev'.picked \in AllAccounts
            THEN /\ ev'.picked \notin req[h].tried_account_names
                 /\ req'[h].account_name = ev'.picked
                 /\ req'[h].tried_account_names =
                        req[h].tried_account_names \cup {ev'.picked}
                 /\ req'[h].start_index = current_site_index'
                 /\ req'[h].tried_sites = 0
                 /\ req'[h].attempt = 0
            ELSE /\ req[h].pc = "sending"
                 /\ req'[h].account_name = req[h].account_name
                 /\ req'[h].tried_account_names = req[h].tried_account_names
                 /\ req'[h].start_index = req[h].start_index
                 /\ \/ /\ req'[h].tried_sites = req[h].tried_sites
                       /\ req'[h].attempt = req[h].attempt + 1
                    \/ /\ req'[h].tried_sites = req[h].tried_sites + 1
                       /\ req'[h].attempt = 0

C34_Terminates == []C34_Budget /\ [][C34_Step]_vars

C34_Witness ==
    \E h \in Handlers :
        /\ req[h].pc = "sending"
        /\ Cardinality(req[h].tried_account_names) = MAX_ACCOUNT_RETRIES
        /\ req[h].start_index = 2
        /\ req[h].tried_sites = NumSites - 1
        /\ req[h].attempt = 1

\* C35: every step that changes current_site_index (threshold rotation,
\* success on another site, healthy probe, verified switch, force switch)
\* leaves site_fail_count = 0.
C35_Step == current_site_index' # current_site_index => site_fail_count' = 0

C36_Once ==
    Cardinality({t \in BmTasks : bm_pc[t] \in {"closing", "launching"}}) <= 1

C36_NoOp(t) ==
    /\ bm_pc'[t] = "idle"
    /\ bm_result'[t] = "true"
    /\ \A u \in BmTasks \ {t} : bm_result'[u] = bm_result[u]
    /\ br_lock' = None
    /\ UNCHANGED <<bm_browser, bm_procs, bm_launched, restart_count, has_start_time>>

C36_Step ==
    /\ \A t \in BmTasks :
          (/\ bm_pc[t] \in {"idle", "lock_wait"}
           /\ bm_pc'[t] \in {"closing", "launching"}
           /\ bm_op'[t] = "start") => ~Running(bm_browser, bm_procs)
    /\ \A t \in BmTasks :
          (/\ bm_pc[t] = "lock_wait"
           /\ bm_op[t] = "start"
           /\ bm_pc'[t] # "lock_wait"
           /\ Running(bm_browser, bm_procs)) => C36_NoOp(t)
    /\ (/\ bm_calls' = bm_calls + 1
        /\ bm_pc' = bm_pc
        /\ Running(bm_browser, bm_procs)) =>
           \E t \in BmTasks : bm_pc[t] = "idle" /\ C36_NoOp(t)

C36_StartOnce == []C36_Once /\ [][C36_Step]_vars

C36_Witness ==
    /\ bm_result["lifespan"] = "true"
    /\ bm_result["refresh"] = "true"
    /\ bm_calls = 2
    /\ bm_launched = 1
    /\ restart_count = 0
    /\ Running(bm_browser, bm_procs)

\* C37: within a request, every account turn that does not end in success
\* records exactly one account failure for that account: the step that ends
\* the turn of account A (the handler drops A without a response accepted)
\* raises A's fail_count by 1.
C37_Step ==
    \A h \in Handlers :
        (/\ ev'.h = h
         /\ req[h].pc = "sending"
         /\ req'[h].pc \in {"idle", "sending"}
         /\ req'[h].account_name # req[h].account_name) =>
            LET A == req[h].account_name IN
            /\ ev'.failed = A
            /\ account_health'[A].fail_count = account_health[A].fail_count + 1

C37_OneFailurePerTurn == [][C37_Step]_vars

\* C38: for a streaming request, site success and account success are
\* recorded in the step that accepts the response, before any chunk is
\* forwarded; the steps of the stream itself (a chunk, its end, an upstream
\* error or a client disconnect in its middle) change neither the account
\* health nor site_fail_count nor current_site_index.
C38_Accept ==
    \A h \in Handlers :
        (ev'.h = h /\ req[h].pc = "sending" /\ req'[h].pc = "streaming") =>
            /\ ev'.succeeded = req[h].account_name
            /\ req'[h].chunk_count = 0
            /\ site_fail_count' = 0
            /\ current_site_index' = SiteOf(req[h])
            /\ account_health'[req[h].account_name].fail_count = 0
            /\ account_health'[req[h].account_name].disabled_until = 0

C38_Stream ==
    \A h \in Handlers :
        (ev'.h = h /\ req[h].pc = "streaming") =>
            UNCHANGED <<account_health, accounts, site_fail_count, current_site_index>>

C38_RecordedAtAccept == [][C38_Accept /\ C38_Stream]_vars

C38_Witness ==
    /\ ev.closed
    /\ ev.raised
    /\ ev.undelivered > 0
    /\ current_site_index = ev.completed
    /\ site_fail_count = 0
    /\ \E a \in AllAccounts : account_health[a].fail_count > 0

\* C39: a browser fetch that returns an empty cookie map is handled as a
\* refresh failure: it ends the refresh without a retry and leaves the
\* cookie map and its expiry as they were.  So a cookie map that is
\* non-empty never becomes empty, and every step that replaces the map (a
\* successful refresh) leaves a non-empty map that expires WAF_COOKIE_TTL
\* after the completion.
C39_Step ==
    /\ cookies # EmptyJar => cookies' # EmptyJar
    /\ cookies' # cookies =>
          /\ cookies' # EmptyJar
          /\ expire_time' = now + WAF_COOKIE_TTL
          /\ op_log'[Len(op_log')] = "ok"
    /\ (Len(op_log') = Len(op_log) + 1 /\ op_log'[Len(op_log')] = "empty") =>
          /\ cookies' = cookies
          /\ expire_time' = expire_time
          /\ total_refreshes' = total_refreshes
          /\ ~is_refreshing'
          /\ \A t \in Tasks : pc'[t] # "fetching"

C39_EmptyIsFailure == [][C39_Step]_vars

C39_Witness ==
    /\ op_log # <<>>
    /\ op_log[Len(op_log)] = "empty"
    /\ cur_op = 0
    /\ cookies # EmptyJar
    /\ \A t \in Tasks : pc[t] # "fetching"

\* C40: a request that started its site loop at mirror i and is answered
\* there with a success, after the primary-site check or an admin switch has
\* set current_site_index to 0, moves current_site_index back to i, with
\* site_fail_count 0 and no site failure recorded: the recovery of the
\* primary is undone by the request that was in flight.
C40_Step ==
    \A h \in Handlers :
        (/\ ev'.h = h
         /\ req[h].pc = "sending"
         /\ req[h].start_index # 0
         /\ req[h].tried_sites = 0
         /\ current_site_index = 0
         /\ req'[h].pc \in {"closing", "streaming"}) =>
            /\ current_site_index' = req[h].start_index
            /\ site_fail_count' = 0
            /\ ev'.moved_from = 0
            /\ ~ev'.site_failed

C40_RecoveryUndone == [][C40_Step]_vars

C40_Witness ==
    /\ ev.moved_from = 0
    /\ ev.succeeded # None
    /\ ~ev.site_failed
    /\ current_site_index # 0
    /\ req[ev.h].start_index = current_site_index
    /\ req[ev.h].tried_sites = 0

====
